---- MODULE Spec2Model ----
(***************************************************************************)
(* Distributed banking: the account service (ledger), the broker queue    *)
(* and the transaction service (consumer + audit table).                   *)
(*                                                                         *)
(* Amounts and balances count units of 1/Cent of a cent: a request may     *)
(* carry any positive decimal, the stores keep scale-2 decimals (whole     *)
(* cents) and round what they are given.  The ledger table runs under the  *)
(* store's                                                                 *)
(* default isolation (PostgreSQL READ COMMITTED, no SELECT ... FOR UPDATE):*)
(* a request is the three statements the code issues, SELECT, then         *)
(* UPDATE+COMMIT (+refresh), then the publish call, and statements of      *)
(* different requests interleave.                                          *)
(***************************************************************************)
EXTENDS Integers, Sequences, FiniteSets, TLC

\* ---------------------------------------------------------------- bounds
NumAccounts == 2
MaxAmount == 1
\* the resolution of decimals: units per cent
Cent == 4
\* ledger specification: concurrent request handlers, requests accepted
NumWorkers == 2
MaxRequests == 2
\* account creation: create requests accepted
MaxCreates == 3
\* pipeline specifications: requests accepted, consumer crashes
MaxFacts == 2
MaxCrashes == 1
\* consumer specification: payloads put on the queue, clock readings
MaxPayloads == 2
MaxClock == 1
\* paging specification: rows in the transactions table
MaxRows == 3
\* numeric specification: requests accepted
MaxOps == 2
NumConsumers == 2
\* autoscaler: minutes its clock runs, firing alerts received, calls in
\* which a docker command raises
MaxTime == 5
MaxAlerts == 3
MaxDockerFaults == 1

\* ------------------------------------------------------------- constants
\* FRAUD_THRESHOLD = Decimal("10000.00"), in cents
FRAUD_THRESHOLD == 1000000
\* channel.basic_qos(prefetch_count=1)
prefetch_count == 1
\* autoscale-service/app/config.py: the defaults of the scaling limits and of
\* the cooldown
MIN_INSTANCES == 1
MAX_INSTANCES == 5
SCALING_COOLDOWN_MINUTES == 5
\* get_transactions(db, account_id=None, skip=0, limit=100)
DefaultLimit == 100

AccountIds == 1..NumAccounts
\* ids a request may address: the existing accounts and one id with no row
RequestIds == 1..(NumAccounts + 1)
\* the decimal of `cents` hundredths
Units(cents) == cents * Cent
\* the amounts of the ledger and pipeline specifications: whole cents, and
\* half a cent, which the schema accepts like any positive decimal
Amounts == {Units(k) : k \in 1..MaxAmount} \cup {Cent \div 2}
\* the amounts of the numeric specification: non-positive ones, fractions
\* of a cent below, at and above one half, a cent, a cent and a fraction
AnyAmounts == (-Cent)..(Cent + Cent \div 2)
Workers == 1..NumWorkers
\* the consumer processes competing on the queue
Consumers == 1..NumConsumers

\* the environment variables the publisher and the consumer read
BrokerSettings == {"RABBITMQ_HOST", "RABBITMQ_PORT", "RABBITMQ_USER",
                   "RABBITMQ_PASSWORD", "RABBITMQ_QUEUE"}
Services == {"account-service", "transaction-service"}

\* account_number of the account created with id `id`
AccountNumberOf(id) == <<"ACC", id>>

NoRequest == [op |-> "none", account_id |-> 0, amount |-> 0]
NoResponse == [status |-> "none", account_id |-> 0]
NoMessage == [id |-> 0]
NoEvent == [account_id |-> 0]
NoRow == [id |-> 0]
ScalingActions == {"scale_up", "scale_down"}
\* _last_scaling_actions.get(key) is None
NoTime == -1
NoScaling == [service |-> "none", action |-> "none", success |-> FALSE, message |-> "none"]

VARIABLES
    accounts,      \* ledger table: id -> [account_number, balance]
    pc,            \* worker -> "idle" | "commit" | "publish" | "insert" |
                   \* "insert_commit"
    request,       \* worker -> the request it is serving
    old_balance,   \* worker -> account.balance as read by get_account
    response,      \* the last response the account service returned
    budget,        \* requests the clients may still send
    commits,       \* history of committed mutations: their number, the net
                   \* amount per account (from the initial balance), their set
    queue,         \* broker queue: ready messages, head first
    sent,          \* history: facts handed to the broker, in publish order
    cpc,           \* consumer: "off" | "starting" | "idle" | "callback" | "ack" |
                   \* "dead" | "stopped"
    inflight,      \* the delivered, unsettled message (prefetch_count = 1)
    transaction,   \* id of the row process_transaction returned, 0 if none
    rows,          \* transactions table, in insertion order
    origin,        \* history: origin[i] is the message rows[i] was made from
    acked,         \* history: [msg, row] for every basic_ack sent
    crashes,       \* faults so far that left a delivery unsettled: consumer
                   \* crashes, store failures after the INSERT
    now,           \* the Transaction Store's clock, read by func.now()
    account_id_seq,      \* the last value the sequence of accounts.id gave
    transaction_id_seq,  \* the last value the sequence of transactions.id gave
    uncommitted,   \* the row the consumer's open database transaction has
                   \* inserted and not yet committed
    settings,      \* the broker settings present in the environment
    malformed,     \* those of them whose value cannot be used: a
                   \* RABBITMQ_PORT that is not an integer
    started,       \* the services whose startup has completed
    connections,   \* broker connections opened by publish calls and not closed
    unacked,       \* consumer of the fleet -> its unsettled deliveries, oldest first
    pending,       \* consumer of the fleet -> the row its open database
                   \* transaction has inserted and not yet committed
    processed,     \* consumer of the fleet -> id of the row committed for its
                   \* oldest delivery, 0 if none yet
    containers,    \* service -> its running containers: 0 the base container,
                   \* n the scaled instance <prefix>-n
    stopped,       \* service -> its scaled instances that were stopped and not
                   \* removed: `docker ps` does not list them, their names are taken
    last_scaling_actions,  \* (service, action) -> time of the last recorded action
    clock,         \* the autoscaler's clock, in minutes
    scaling,       \* the result of the last scale_service call
    docker_faults  \* scale_service calls so far in which a docker command raised

ledgerVars == <<accounts, pc, request, old_balance, response, budget, commits>>
brokerVars == <<queue, sent>>
consumerVars == <<cpc, inflight, transaction, rows, origin, acked, crashes, now>>
storeVars == <<account_id_seq, transaction_id_seq, uncommitted>>
deployVars == <<settings, malformed, started>>
fleetVars == <<unacked, pending, processed>>
scalerVars == <<containers, stopped, last_scaling_actions, clock, scaling, docker_faults>>
vars == <<accounts, pc, request, old_balance, response, budget, commits,
          queue, sent, cpc, inflight, transaction, rows, origin, acked, crashes, now,
          account_id_seq, transaction_id_seq, uncommitted, pending,
          settings, malformed, started, connections, unacked, processed,
          containers, stopped, last_scaling_actions, clock, scaling, docker_faults>>

\* ---------------------------------------------------------------- helpers
Indices(s) == 1..Len(s)

\* ------------------------------------------------------- account service

AccountExists_Never(id) == FALSE
AccountExists(id) == id \in DOMAIN accounts

\* withdraw's guard: account.balance < amount
InsufficientFunds_NoCheck(balance, amount) == FALSE
InsufficientFunds_Reversed(balance, amount) == amount < balance
InsufficientFunds(balance, amount) == balance < amount

\* DepositRequest / WithdrawRequest: amount: Decimal = Field(..., gt=0)
ValidAmount(amount) == amount > 0

\* Numeric(10, 2): the store keeps a decimal rounded to whole cents, a half
\* cent going away from zero
RoundToCent(x) ==
    LET r == x % Cent
    IN IF 2 * r >= Cent THEN x - r + Cent ELSE x - r
Quantize(x) == IF x >= 0 THEN RoundToCent(x) ELSE -RoundToCent(-x)

\* the value the ORM writes: the balance read plus or minus the amount
NewBalance(op, balance, amount) ==
    IF op = "deposit" THEN balance + amount ELSE balance - amount

\* Exceptions publish_transaction_event can end with, by failure mode.
\* Missing configuration is the RuntimeError the code raises itself; a port
\* that is not an integer is the ValueError of int(); a failed connection, a
\* broker-side error and a connection lost in close() are pika's
\* AMQPConnectionError and AMQPChannelError, which derive from pika's
\* AMQPError(Exception).
PublishFailureModes == {"missing_config", "invalid_port", "connection_failure",
                        "broker_error", "close_failure"}
PublishRaises(mode) ==
    CASE mode = "missing_config" -> "RuntimeError"
      [] mode = "invalid_port" -> "ValueError"
      [] mode = "connection_failure" -> "AMQPConnectionError"
      [] mode = "broker_error" -> "AMQPChannelError"
      [] mode = "close_failure" -> "AMQPConnectionError"
\* how a call can end in the present environment: with a setting absent it
\* raises before it reads the port, with a port that is no integer it raises
\* before it connects
PublishOutcomes ==
    IF ~(BrokerSettings \subseteq settings) THEN {"missing_config"}
    ELSE IF "RABBITMQ_PORT" \in malformed THEN {"invalid_port"}
    ELSE {"ok", "connection_failure", "broker_error", "close_failure"}

\* publisher.publish_transaction_event ending in `mode`: the exception it
\* raises, whether basic_publish handed the message to the broker, and whether
\* it left the connection it opened unclosed.  connection.close() is the last
\* statement of the try block and there is no finally: a failure of
\* channel(), queue_declare or basic_publish skips it, and a failure of
\* close() itself comes after basic_publish.
publish_transaction_event(mode) ==
    [raises |-> IF mode = "ok" THEN "none" ELSE PublishRaises(mode),
     handed |-> mode \in {"ok", "close_failure"},
     left_open |-> mode = "broker_error"]

\* except (ConnectionError, ValueError, RuntimeError) in deposit / withdraw
ServiceCatches(exc) == exc \in {"ConnectionError", "ValueError", "RuntimeError"}

\* the TransactionEvent built by publish_transaction_event
TransactionEvent_OtherNumber(account_id, account_number, amount, transaction_type) ==
    [account_id |-> account_id, account_number |-> AccountNumberOf(account_id + 1),
     amount |-> amount, transaction_type |-> transaction_type]
TransactionEvent(account_id, account_number, amount, transaction_type) ==
    [account_id |-> account_id, account_number |-> account_number,
     amount |-> amount, transaction_type |-> transaction_type]

\* the record of a committed mutation kept in the history
Mutation(r) == [account_id |-> r.account_id, amount |-> r.amount, transaction_type |-> r.op]

\* deposit / withdraw up to the commit decision: validation of the body,
\* get_account, NotFound, the insufficient-funds check
BeginRequest(w, op, id, amount) ==
    /\ "account-service" \in started
    /\ pc[w] = "idle"
    /\ budget > 0
    /\ budget' = budget - 1
    /\ IF ~ValidAmount(amount)
       THEN \* the request body fails validation: the handler does not run
            /\ response' = [status |-> "InvalidInput", account_id |-> id]
            /\ UNCHANGED <<pc, request, old_balance>>
       ELSE IF ~AccountExists(id)
       THEN /\ response' = [status |-> "NotFound", account_id |-> id]
            /\ UNCHANGED <<pc, request, old_balance>>
       ELSE IF op = "withdraw" /\ InsufficientFunds(accounts[id].balance, amount)
       THEN /\ response' = [status |-> "InsufficientFunds", account_id |-> id]
            /\ UNCHANGED <<pc, request, old_balance>>
       ELSE /\ pc' = [pc EXCEPT ![w] = "commit"]
            /\ request' = [request EXCEPT ![w] =
                              [op |-> op, account_id |-> id, amount |-> amount]]
            /\ old_balance' = [old_balance EXCEPT ![w] = accounts[id].balance]
            /\ UNCHANGED response
    /\ UNCHANGED <<storeVars, deployVars, fleetVars, scalerVars, connections, accounts, commits, brokerVars, consumerVars>>

Deposit(w) == \E id \in RequestIds, amount \in Amounts : BeginRequest(w, "deposit", id, amount)

Withdraw(w) == \E id \in RequestIds, amount \in Amounts : BeginRequest(w, "withdraw", id, amount)

\* requests with any amount the client may send
DepositAny(w) ==
    \E id \in AccountIds, amount \in AnyAmounts : BeginRequest(w, "deposit", id, amount)

WithdrawAny(w) ==
    \E id \in AccountIds, amount \in AnyAmounts : BeginRequest(w, "withdraw", id, amount)

\* account.balance +=/-= amount; db.commit(); db.refresh(account)
Commit(w) ==
    /\ pc[w] = "commit"
    /\ LET r == request[w]
           nb == Quantize(NewBalance(r.op, old_balance[w], r.amount))
       IN /\ accounts' = [accounts EXCEPT ![r.account_id].balance = nb]
          /\ commits' = [n |-> commits.n + 1,
                         net |-> [commits.net EXCEPT ![r.account_id] =
                                     @ + (IF r.op = "deposit" THEN r.amount ELSE -r.amount)],
                         facts |-> commits.facts \cup {Mutation(r)}]
    /\ pc' = [pc EXCEPT ![w] = "publish"]
    /\ UNCHANGED <<storeVars, deployVars, fleetVars, scalerVars, connections, request, old_balance, response, budget, brokerVars, consumerVars>>

\* publisher.publish_transaction_event and the try/except around it
PublishCall(w, mode) ==
    /\ pc[w] = "publish"
    /\ mode \in PublishOutcomes
    /\ LET r == request[w]
           fact == TransactionEvent(r.account_id, accounts[r.account_id].account_number,
                                    r.amount, r.op)
           call == publish_transaction_event(mode)
       IN /\ IF call.handed
             THEN /\ queue' = Append(queue, [id |-> Len(sent) + 1, kind |-> "fact",
                                             event |-> fact, redelivered |-> FALSE])
                  /\ sent' = Append(sent, fact)
             ELSE UNCHANGED <<queue, sent>>
          /\ connections' = IF call.left_open THEN connections + 1 ELSE connections
          /\ response' =
                 [status |-> IF call.raises = "none" \/ ServiceCatches(call.raises)
                             THEN "OK" ELSE "Unhandled",
                  account_id |-> r.account_id]
    /\ pc' = [pc EXCEPT ![w] = "idle"]
    /\ request' = [request EXCEPT ![w] = NoRequest]
    /\ old_balance' = [old_balance EXCEPT ![w] = 0]
    /\ UNCHANGED <<storeVars, deployVars, fleetVars, scalerVars, accounts, budget, commits, consumerVars>>

\* the call that ends normally
PublishOk(w) == PublishCall(w, "ok")

Publish(w) == \E mode \in {"ok"} \cup PublishFailureModes : PublishCall(w, mode)

\* router.create_account's check: service.get_account_by_number
get_account_by_number(account_number) ==
    {id \in DOMAIN accounts : accounts[id].account_number = account_number}

\* Account.account_number is unique=True: the store refuses the INSERT of a
\* number some committed row holds (IntegrityError at db.commit())
UniqueViolation_None(account_number) == FALSE
UniqueViolation(account_number) ==
    \E id \in DOMAIN accounts : accounts[id].account_number = account_number

\* Account.id, the autoincremented primary key: the next value of the
\* table's sequence
NextAccountId == account_id_seq + 1

\* the account_numbers clients ask for
AccountNumbers == {AccountNumberOf(i) : i \in RequestIds}

\* POST /accounts up to the insert: the router's existence check
CreateAccount(w, account_number) ==
    /\ pc[w] = "idle"
    /\ budget > 0
    /\ budget' = budget - 1
    /\ IF get_account_by_number(account_number) # {}
       THEN /\ response' = [status |-> "AlreadyExists", account_id |-> 0]
            /\ UNCHANGED <<pc, request>>
       ELSE /\ pc' = [pc EXCEPT ![w] = "insert"]
            /\ request' = [request EXCEPT ![w] =
                              [op |-> "create", account_number |-> account_number]]
            /\ UNCHANGED response
    /\ UNCHANGED <<storeVars, deployVars, fleetVars, scalerVars, connections, accounts, old_balance, commits, brokerVars, consumerVars>>

\* service.create_account: db.add(Account(number, 0.00)) and the INSERT that
\* db.commit() sends first.  The row takes the next value of the sequence,
\* which is not given back when the unique index refuses the row; the router
\* has no handler for the store's IntegrityError.
InsertAccount(w) ==
    /\ pc[w] = "insert"
    /\ LET number == request[w].account_number
           id == NextAccountId
       IN /\ account_id_seq' = id
          /\ IF UniqueViolation(number)
             THEN /\ response' = [status |-> "Unhandled", account_id |-> 0]
                  /\ pc' = [pc EXCEPT ![w] = "idle"]
                  /\ request' = [request EXCEPT ![w] = NoRequest]
             ELSE /\ pc' = [pc EXCEPT ![w] = "insert_commit"]
                  /\ request' = [request EXCEPT ![w] =
                                    [op |-> "create", account_number |-> number,
                                     account_id |-> id]]
                  /\ UNCHANGED response
    /\ UNCHANGED <<transaction_id_seq, uncommitted, deployVars, fleetVars, scalerVars,
                   connections, accounts, old_balance, budget, commits, brokerVars, consumerVars>>

\* the INSERT of handler w waits while the transaction of a handler that
\* inserted the same number before it is open
InsertWaits(w) ==
    \E v \in Workers \ {w} :
        /\ pc[v] = "insert_commit"
        /\ request[v].account_number = request[w].account_number
        /\ request[v].account_id < request[w].account_id

\* The rest of db.commit(): the INSERT returns, refused when the handler it
\* waited for has committed the number, and the COMMIT makes the row visible
\* to the other handlers; db.refresh(account) and the 201 response.
CommitAccount(w) ==
    /\ pc[w] = "insert_commit"
    /\ ~InsertWaits(w)
    /\ LET id == request[w].account_id
           number == request[w].account_number
       IN IF UniqueViolation(number)
          THEN /\ response' = [status |-> "Unhandled", account_id |-> 0]
               /\ UNCHANGED accounts
          ELSE /\ accounts' = [a \in DOMAIN accounts \cup {id} |->
                                  IF a = id
                                  THEN [account_number |-> number, balance |-> 0]
                                  ELSE accounts[a]]
               /\ response' = [status |-> "Created", account_id |-> id]
    /\ pc' = [pc EXCEPT ![w] = "idle"]
    /\ request' = [request EXCEPT ![w] = NoRequest]
    /\ UNCHANGED <<storeVars, deployVars, fleetVars, scalerVars, connections,
                   old_balance, budget, commits, brokerVars, consumerVars>>

\* --------------------------------------------------- transaction service

\* The row service.process_transaction builds (id the next value of the
\* table's sequence, taken by the INSERT; processed_at from the column's
\* server_default func.now()).  The `_Ge` and
\* `_ReusedId` variants flag from the threshold on and take the id of the
\* newest row again.
process_transaction_Ge(account_id, account_number, amount, transaction_type) ==
    LET fraud_detected == amount >= Units(FRAUD_THRESHOLD)
    IN [id |-> transaction_id_seq + 1,
        account_id |-> account_id,
        account_number |-> account_number,
        amount |-> Quantize(amount),
        transaction_type |-> transaction_type,
        processed_at |-> now,
        fraud_detected |-> fraud_detected,
        notes |-> IF fraud_detected
                  THEN <<"Large transaction detected", amount, transaction_type>>
                  ELSE <<>>]
process_transaction_ReusedId(account_id, account_number, amount, transaction_type) ==
    LET fraud_detected == amount > Units(FRAUD_THRESHOLD)
    IN [id |-> IF transaction_id_seq = 0 THEN 1 ELSE transaction_id_seq,
        account_id |-> account_id,
        account_number |-> account_number,
        amount |-> Quantize(amount),
        transaction_type |-> transaction_type,
        processed_at |-> now,
        fraud_detected |-> fraud_detected,
        notes |-> IF fraud_detected
                  THEN <<"Large transaction detected", amount, transaction_type>>
                  ELSE <<>>]
process_transaction(account_id, account_number, amount, transaction_type) ==
    LET fraud_detected == amount > Units(FRAUD_THRESHOLD)
    IN [id |-> transaction_id_seq + 1,
        account_id |-> account_id,
        account_number |-> account_number,
        amount |-> Quantize(amount),
        transaction_type |-> transaction_type,
        processed_at |-> now,
        fraud_detected |-> fraud_detected,
        notes |-> IF fraud_detected
                  THEN <<"Large transaction detected", amount, transaction_type>>
                  ELSE <<>>]

\* db.add(transaction); db.commit(): the table after the INSERT
InsertTransaction_Overwrite(t) ==
    IF rows = <<>> THEN <<t>> ELSE [rows EXCEPT ![Len(rows)] = t]
InsertTransaction(t) == Append(rows, t)

\* order_by(Transaction.processed_at.desc(), Transaction.id.desc())
OrderedBefore_Asc(t, u) ==
    \/ t.processed_at < u.processed_at
    \/ t.processed_at = u.processed_at /\ t.id < u.id
OrderedBefore(t, u) ==
    \/ t.processed_at > u.processed_at
    \/ t.processed_at = u.processed_at /\ t.id > u.id

\* s is ordered: t goes after the rows that come before it
InsertOrdered(s, t) ==
    LET k == Cardinality({i \in Indices(s) : OrderedBefore(s[i], t)})
    IN SubSeq(s, 1, k) \o <<t>> \o SubSeq(s, k + 1, Len(s))

RECURSIVE OrderBy(_)
OrderBy(s) == IF s = <<>> THEN <<>> ELSE InsertOrdered(OrderBy(Tail(s)), Head(s))

\* .offset(skip).limit(limit)
OffsetLimit_NoOffset(s, skip, limit) ==
    SubSeq(s, 1, IF limit < Len(s) THEN limit ELSE Len(s))
OffsetLimit_Inclusive(s, skip, limit) ==
    SubSeq(s, skip + 1, IF skip + limit + 1 < Len(s) THEN skip + limit + 1 ELSE Len(s))
OffsetLimit(s, skip, limit) ==
    SubSeq(s, skip + 1, IF skip + limit < Len(s) THEN skip + limit ELSE Len(s))

\* service.get_transactions: `if account_id:` skips the filter for 0 / None
get_transactions_ById(account_id, skip, limit) ==
    OffsetLimit(OrderBy(IF account_id # 0
                        THEN SelectSeq(rows, LAMBDA t : t.id = account_id)
                        ELSE rows),
                skip, limit)
get_transactions(account_id, skip, limit) ==
    OffsetLimit(OrderBy(IF account_id # 0
                        THEN SelectSeq(rows, LAMBDA t : t.account_id = account_id)
                        ELSE rows),
                skip, limit)

\* What a message body can be: a serialized TransactionEvent, text that is
\* not JSON, bytes that are not text (not UTF-8), JSON or an unfinished
\* document nested deeper than the interpreter's recursion limit, JSON that
\* is not an object, an object whose fields are missing or ill-typed.
PayloadKinds == {"fact", "invalid_json", "not_utf8", "deep_nesting", "not_object",
                 "bad_fields"}

\* json.loads(body); TransactionEvent(**message_data): the exception raised.
\* `**` of a non-mapping is a TypeError; pydantic's ValidationError is a
\* ValueError, as are json.JSONDecodeError and the UnicodeDecodeError of
\* decoding the bytes; the scanner's RecursionError is a RuntimeError.
ParseRaises(kind) ==
    CASE kind = "fact" -> "none"
      [] kind = "invalid_json" -> "JSONDecodeError"
      [] kind = "not_utf8" -> "UnicodeDecodeError"
      [] kind = "deep_nesting" -> "RecursionError"
      [] kind = "not_object" -> "TypeError"
      [] kind = "bad_fields" -> "ValidationError"

\* the classes an exception is an instance of, below Exception
Bases(exc) ==
    CASE exc = "JSONDecodeError" -> {"JSONDecodeError", "ValueError"}
      [] exc = "ValidationError" -> {"ValidationError", "ValueError"}
      [] exc = "UnicodeDecodeError" -> {"UnicodeDecodeError", "UnicodeError", "ValueError"}
      [] exc = "RecursionError" -> {"RecursionError", "RuntimeError"}
      [] exc = "AMQPConnectionError" -> {"AMQPConnectionError", "AMQPError"}
      [] exc = "AMQPChannelError" -> {"AMQPChannelError", "AMQPError"}
      [] exc = "RefreshError" -> {"SQLAlchemyError"}
      [] exc = "CommitError" -> {"SQLAlchemyError"}
      [] OTHER -> {exc}

\* How process_transaction can end inside the callback: it returns, or raises
\* a ValueError / RuntimeError, or the store raises sqlalchemy's
\* SQLAlchemyError (which derives from Exception) in db.commit(), before the
\* INSERT took effect or, the INSERT sent, at the COMMIT ("CommitError"), or
\* it raises it in db.refresh() when the row is already committed.
ProcessOutcomes == {"ok", "ValueError", "RuntimeError", "SQLAlchemyError",
                    "CommitError", "RefreshError"}

\* the INSERT took its id from the sequence although process_transaction did
\* not return: a sequence value is never given back
InsertedBeforeRaise(o) == o \in {"CommitError", "RefreshError"}

\* the row is durable although process_transaction did not return
CommittedBeforeRaise(o) == o = "RefreshError"

\* except (ValueError, RuntimeError) around process_transaction
InnerCatches(exc) == Bases(exc) \cap {"ValueError", "RuntimeError"} # {}
\* except (ConnectionError, RuntimeError) of the callback's outer try
OuterCatches(exc) == Bases(exc) \cap {"ConnectionError", "RuntimeError"} # {}

\* the broker puts a message back at the head of the queue, marked redelivered
Requeue(m) == <<[m EXCEPT !.redelivered = TRUE]>> \o queue

\* basic_consume without auto_ack: a delivery left unsettled when its channel
\* closes goes back to the queue
UnackedRequeue_Tail(m) == Append(queue, m)
UnackedRequeue(m) == Requeue(m)

\* some publisher puts a body on the durable queue: the bodies are the facts
\* at the fraud threshold, a fraction of a cent above it and a cent above it,
\* and the malformed payloads
EventAmounts ==
    {Units(FRAUD_THRESHOLD), Units(FRAUD_THRESHOLD) + 1, Units(FRAUD_THRESHOLD + 1)}

EnqueueUpTo_Lifo(n, kind, event) ==
    /\ Len(sent) < n
    /\ queue' = <<[id |-> Len(sent) + 1, kind |-> kind,
                   event |-> event, redelivered |-> FALSE]>> \o queue
    /\ sent' = Append(sent, event)
    /\ UNCHANGED <<storeVars, deployVars, fleetVars, scalerVars, connections, ledgerVars, consumerVars>>
EnqueueUpTo(n, kind, event) ==
    /\ Len(sent) < n
    /\ queue' = Append(queue, [id |-> Len(sent) + 1, kind |-> kind,
                               event |-> event, redelivered |-> FALSE])
    /\ sent' = Append(sent, event)
    /\ UNCHANGED <<storeVars, deployVars, fleetVars, scalerVars, connections, ledgerVars, consumerVars>>

Enqueue(kind, event) == EnqueueUpTo(MaxPayloads, kind, event)

EnqueueFact ==
    \E id \in AccountIds, amount \in EventAmounts, type \in {"deposit", "withdraw"} :
        Enqueue("fact", TransactionEvent(id, AccountNumberOf(id), amount, type))

\* deposits of one amount, for the specification that fills the table
EnqueueDeposit ==
    \E id \in AccountIds :
        EnqueueUpTo(MaxRows, "fact",
                    TransactionEvent(id, AccountNumberOf(id), Units(FRAUD_THRESHOLD),
                                     "deposit"))

EnqueueMalformed == \E kind \in PayloadKinds \ {"fact"} : Enqueue(kind, NoEvent)

\* the store's clock advances
Tick ==
    /\ now < MaxClock
    /\ now' = now + 1
    /\ UNCHANGED <<storeVars, deployVars, fleetVars, scalerVars, connections, ledgerVars, brokerVars, cpc, inflight, transaction, rows, origin,
                   acked, crashes>>

\* the broker hands the head of the queue to the consumer (prefetch_count = 1)
Deliver ==
    /\ cpc = "idle"
    /\ queue # <<>>
    /\ inflight' = Head(queue)
    /\ queue' = Tail(queue)
    /\ cpc' = "callback"
    /\ transaction' = 0
    /\ UNCHANGED <<storeVars, deployVars, fleetVars, scalerVars, connections, ledgerVars, sent, rows, origin, acked, crashes, now>>

\* what the callback does with the delivery once process_transaction ended
\* with `o`: ack after a normal return, nack(requeue=True) from the handler
\* that catches the exception, nothing when no handler catches it
Settlement_AckAlways(o) == "ack"
Settlement(o) ==
    IF o = "ok" THEN "ack"
    ELSE IF InnerCatches(o) \/ OuterCatches(o) THEN "nack_requeue"
    ELSE "none"

\* what the callback does when parsing raised `exc`: the handlers of the
\* outer try, the only ones around the parse
ParseSettlement(exc) ==
    IF "JSONDecodeError" \in Bases(exc) THEN "nack_discard"
    ELSE IF OuterCatches(exc) THEN "nack_requeue"
    ELSE "none"

\* process_transaction up to the INSERT (service.py 36-45): db.add, then the
\* flush that db.commit starts with.  The INSERT takes the next value of the
\* sequence of transactions.id and the store's clock; the row is in the
\* callback's open database transaction, not yet in the table.
Insert ==
    /\ cpc = "callback"
    /\ uncommitted = NoRow
    /\ ParseRaises(inflight.kind) = "none"
    /\ LET event == inflight.event
       IN uncommitted' = process_transaction(event.account_id, event.account_number,
                                             event.amount, event.transaction_type)
    /\ transaction_id_seq' = transaction_id_seq + 1
    /\ UNCHANGED <<account_id_seq, deployVars, fleetVars, scalerVars, connections,
                   ledgerVars, brokerVars, consumerVars>>

\* the outcomes of process_transaction that follow the INSERT
AfterInsert(o) == o = "ok" \/ InsertedBeforeRaise(o)

\* the end of the callback's work: a body that does not parse, a failure of
\* process_transaction before its INSERT, or, after the INSERT, the COMMIT and
\* the refresh (service.py 45-46); then the handlers of the callback
Process(o) ==
    /\ cpc = "callback"
    /\ LET exc == ParseRaises(inflight.kind)
           settlement == IF exc # "none" THEN ParseSettlement(exc) ELSE Settlement(o)
       IN /\ exc = "none" => (AfterInsert(o) <=> uncommitted # NoRow)
          /\ IF exc = "none" /\ (o = "ok" \/ CommittedBeforeRaise(o))
             THEN /\ rows' = InsertTransaction(uncommitted)
                  /\ origin' = Append(origin, inflight.id)
                  /\ transaction' = IF o = "ok" THEN uncommitted.id ELSE 0
             ELSE UNCHANGED <<rows, origin, transaction>>
          /\ uncommitted' = NoRow
          /\ IF exc = "none" /\ InsertedBeforeRaise(o)
             THEN crashes < MaxCrashes /\ crashes' = crashes + 1
             ELSE UNCHANGED crashes
          /\ CASE settlement = "ack" ->
                     /\ cpc' = "ack"
                     /\ UNCHANGED <<queue, inflight>>
               [] settlement = "nack_requeue" ->
                     /\ queue' = Requeue(inflight)
                     /\ inflight' = NoMessage
                     /\ cpc' = "idle"
               [] settlement = "nack_discard" ->
                     \* basic_nack(requeue=False): the broker drops the message
                     /\ inflight' = NoMessage
                     /\ cpc' = "idle"
                     /\ UNCHANGED queue
               [] OTHER ->
                     \* the exception leaves the callback and ends the consumer thread
                     /\ cpc' = "dead"
                     /\ UNCHANGED <<queue, inflight>>
    /\ UNCHANGED <<account_id_seq, transaction_id_seq, deployVars, fleetVars, scalerVars,
                   connections, ledgerVars, sent, acked, now>>

ProcessMessage == \E o \in ProcessOutcomes : Process(o)

ProcessOk == Process("ok")

\* ch.basic_ack(delivery_tag) after process_transaction returned
Ack ==
    /\ cpc = "ack"
    /\ acked' = acked \cup {[msg |-> inflight.id, row |-> transaction]}
    /\ inflight' = NoMessage
    /\ transaction' = 0
    /\ cpc' = "idle"
    /\ UNCHANGED <<storeVars, deployVars, fleetVars, scalerVars, connections, ledgerVars, brokerVars, rows, origin, crashes, now>>

\* the consumer process is killed, or loses its connection, with a delivery unsettled
Crash ==
    /\ cpc \in {"callback", "ack"}
    /\ crashes < MaxCrashes
    /\ crashes' = crashes + 1
    /\ cpc' = "dead"
    \* the store rolls the open transaction back; the value its INSERT took
    \* from the sequence is not given back
    /\ uncommitted' = NoRow
    /\ UNCHANGED <<account_id_seq, transaction_id_seq, deployVars, fleetVars, scalerVars,
                   connections, ledgerVars, brokerVars, inflight, transaction, rows,
                   origin, acked, now>>

\* The shutdown interrupt reaches the consumer while it waits in
\* start_consuming, runs the callback or is about to ack.  KeyboardInterrupt
\* is not an Exception: no handler of the callback catches it, and
\* start_consumer's handler stops consuming and closes the connection; run as
\* the daemon thread of main.startup_event the consumer simply ends with the
\* process.  Either way the delivery in flight is not settled.
Interrupt ==
    /\ cpc \in {"idle", "callback", "ack"}
    /\ crashes < MaxCrashes
    /\ crashes' = crashes + 1
    /\ cpc' = "stopped"
    \* the store rolls the open transaction back; the value its INSERT took
    \* from the sequence is not given back
    /\ uncommitted' = NoRow
    /\ UNCHANGED <<account_id_seq, transaction_id_seq, deployVars, fleetVars, scalerVars,
                   connections, ledgerVars, brokerVars, inflight, transaction, rows,
                   origin, acked, now>>

\* the broker sees the ended consumer's connection close and requeues its delivery
ConnectionLost ==
    /\ cpc \in {"dead", "stopped"}
    /\ inflight # NoMessage
    /\ queue' = UnackedRequeue(inflight)
    /\ inflight' = NoMessage
    /\ transaction' = 0
    /\ UNCHANGED <<storeVars, deployVars, fleetVars, scalerVars, connections, ledgerVars, sent, cpc, rows, origin, acked, crashes, now>>

\* How start_consumer can go up to start_consuming: it consumes, or it raises
\* the RuntimeError of a setting that is absent, the ValueError of int() for a
\* port that is no integer, or pika's AMQPConnectionError when the broker
\* cannot be reached (there is no retry).
ConsumerStartOutcomes ==
    IF ~(BrokerSettings \subseteq settings) THEN {"missing_config"}
    ELSE IF "RABBITMQ_PORT" \in malformed THEN {"invalid_port"}
    ELSE {"ok", "connection_failure"}

\* start_consumer in its thread: the RuntimeError is logged and re-raised, no
\* handler catches the other exceptions, and either way the thread ends
start_consumer(outcome) == IF outcome = "ok" THEN "idle" ELSE "dead"

\* the service is started again: start_consumer opens a new connection
Restart ==
    /\ cpc \in {"dead", "stopped"}
    /\ inflight = NoMessage
    /\ "ok" \in ConsumerStartOutcomes
    /\ cpc' = "idle"
    /\ UNCHANGED <<storeVars, deployVars, fleetVars, scalerVars, connections, ledgerVars, brokerVars, inflight, transaction, rows, origin, acked,
                   crashes, now>>

\* ------------------------------------------------------- specifications
\* Everything but the accounts: the clients may send `n` requests; the queue
\* and the transactions table are empty and the consumer waits for a delivery.
InitState(n, bal) ==
    /\ pc = [w \in Workers |-> "idle"]
    /\ request = [w \in Workers |-> NoRequest]
    /\ old_balance = [w \in Workers |-> 0]
    /\ response = NoResponse
    /\ budget = n
    /\ commits = [n |-> 0, net |-> [a \in AccountIds |-> bal], facts |-> {}]
    /\ queue = <<>>
    /\ sent = <<>>
    /\ connections = 0
    /\ inflight = NoMessage
    /\ transaction = 0
    /\ rows = <<>>
    /\ origin = <<>>
    /\ acked = {}
    /\ crashes = 0
    /\ now = 0
    /\ transaction_id_seq = 0
    /\ uncommitted = NoRow
    /\ unacked = [c \in Consumers |-> <<>>]
    /\ pending = [c \in Consumers |-> NoRow]
    /\ processed = [c \in Consumers |-> 0]
    /\ stopped = [s \in Services |-> {}]
    /\ last_scaling_actions = [k \in Services \X ScalingActions |-> NoTime]
    /\ clock = 0
    /\ scaling = NoScaling
    /\ docker_faults = 0

\* both services are up, one container each, configured, and the consumer
\* waits for a delivery
InitDeployed ==
    /\ settings = BrokerSettings
    /\ malformed = {}
    /\ started = Services
    /\ cpc = "idle"
    /\ containers = [s \in Services |-> {0}]

InitRest(n, bal) == InitState(n, bal) /\ InitDeployed

\* NumAccounts accounts exist, each holding `bal` (0 as create_account leaves
\* it, or an opening balance from earlier deposits that the history counts as
\* the initial balance); the clients may send `n` requests; the queue and the
\* transactions table are empty and the consumer waits for a delivery.
InitWith(n, bal) ==
    /\ accounts = [id \in AccountIds |->
                      [account_number |-> AccountNumberOf(id), balance |-> bal]]
    /\ account_id_seq = NumAccounts
    /\ InitRest(n, bal)

\* Account creation: concurrent POST /accounts handlers on an empty ledger.
InitCreate == accounts = <<>> /\ account_id_seq = 0 /\ InitRest(MaxCreates, 0)

NextCreate ==
    \/ \E w \in Workers, number \in AccountNumbers : CreateAccount(w, number)
    \/ \E w \in Workers : InsertAccount(w)
    \/ \E w \in Workers : CommitAccount(w)

SpecCreate == InitCreate /\ [][NextCreate]_vars

\* The ledger: concurrent deposit / withdraw handlers and the publisher, on
\* accounts that each hold MaxAmount cents, in an environment that has every broker
\* setting, the port an integer or not.
Init ==
    /\ accounts = [id \in AccountIds |->
                      [account_number |-> AccountNumberOf(id),
                       balance |-> Units(MaxAmount)]]
    /\ account_id_seq = NumAccounts
    /\ InitState(MaxRequests, Units(MaxAmount))
    /\ settings = BrokerSettings
    /\ malformed \in SUBSET {"RABBITMQ_PORT"}
    /\ started = Services
    /\ cpc = "idle"
    /\ containers = [s \in Services |-> {0}]

Next ==
    \/ \E w \in Workers : Deposit(w)
    \/ \E w \in Workers : Withdraw(w)
    \/ \E w \in Workers : Commit(w)
    \/ \E w \in Workers : Publish(w)

Spec == Init /\ [][Next]_vars

\* The ledger served one request at a time, with any amount a client may
\* send, on accounts that hold 0.00.
InitNumeric == InitWith(MaxOps, 0)

NextNumeric ==
    \/ \E w \in Workers : DepositAny(w)
    \/ \E w \in Workers : WithdrawAny(w)
    \/ \E w \in Workers : Commit(w)
    \/ \E w \in Workers : Publish(w)

SpecNumeric == InitNumeric /\ [][NextNumeric]_vars

\* The pipeline: one request handler at a time, the broker and the consumer.
InitPipeline == InitWith(MaxFacts, 0)

\* The publish call ends in any way but with a connection left open: for the
\* queue a broker-side error is a failed connection, and the connections are
\* the ledger specification's concern.
Requests ==
    \/ Deposit(1)
    \/ Withdraw(1)
    \/ Commit(1)
    \/ \E mode \in {"ok", "connection_failure", "close_failure"} : PublishCall(1, mode)

NextPipeline ==
    \/ Requests
    \/ Deliver
    \/ Insert
    \/ ProcessMessage
    \/ Ack
    \/ Crash
    \/ ConnectionLost
    \/ Restart

SpecPipeline == InitPipeline /\ [][NextPipeline]_vars

\* requests of one cent: to the broker and the consumer the amount is data
DepositCent(w) == \E id \in RequestIds : BeginRequest(w, "deposit", id, Units(1))

WithdrawCent(w) == \E id \in RequestIds : BeginRequest(w, "withdraw", id, Units(1))

\* The pipeline with a reachable broker and a working Transaction Store,
\* under fair scheduling of the broker and of the running consumer.  The
\* service starts its consumer once (main.startup_event): an ended consumer
\* runs again only if the service is started again from outside, which may
\* never happen.
NextLive ==
    \/ DepositCent(1)
    \/ WithdrawCent(1)
    \/ Commit(1)
    \/ PublishOk(1)
    \/ Deliver
    \/ Insert
    \/ ProcessOk
    \/ Ack
    \/ Crash
    \/ ConnectionLost
    \/ Restart

\* The consumer alone, fed with arbitrary bodies by the queue, its store's
\* clock running.
InitConsumer == InitWith(0, 0)

NextConsumer ==
    \/ EnqueueFact
    \/ EnqueueMalformed
    \/ Deliver
    \/ Insert
    \/ ProcessMessage
    \/ Ack
    \/ ConnectionLost
    \/ Restart

SpecConsumer == InitConsumer /\ [][NextConsumer]_vars

\* account-service/app/main.py: the application object is built and serves;
\* no broker setting is read before the first publish
StartAccountService ==
    /\ "account-service" \notin started
    /\ started' = started \cup {"account-service"}
    /\ UNCHANGED <<storeVars, ledgerVars, brokerVars, consumerVars, settings, malformed,
                   connections, fleetVars, scalerVars>>

\* transaction-service main.startup_event: the consumer thread is started and
\* the service goes on to serve requests
StartTransactionService ==
    /\ "transaction-service" \notin started
    /\ cpc = "off"
    /\ started' = started \cup {"transaction-service"}
    /\ cpc' = "starting"
    /\ UNCHANGED <<storeVars, ledgerVars, brokerVars, inflight, transaction, rows, origin, acked,
                   crashes, now, settings, malformed, connections, fleetVars,
                   scalerVars>>

StartConsumer ==
    /\ cpc = "starting"
    /\ \E outcome \in ConsumerStartOutcomes : cpc' = start_consumer(outcome)
    /\ UNCHANGED <<storeVars, ledgerVars, brokerVars, inflight, transaction, rows, origin, acked,
                   crashes, now, deployVars, connections, fleetVars, scalerVars>>

\* Both services started in an environment in which any of the broker
\* settings may be absent.
InitStartup ==
    /\ accounts = [id \in AccountIds |->
                      [account_number |-> AccountNumberOf(id), balance |-> 0]]
    /\ account_id_seq = NumAccounts
    /\ InitState(MaxOps, 0)
    /\ settings \in SUBSET BrokerSettings
    /\ malformed \in SUBSET ({"RABBITMQ_PORT"} \cap settings)
    /\ started = {}
    /\ cpc = "off"
    /\ containers = [s \in Services |-> {0}]

NextStartup ==
    \/ StartAccountService
    \/ StartTransactionService
    \/ StartConsumer
    \/ Deposit(1)
    \/ Commit(1)
    \/ Publish(1)
    \/ Deliver
    \/ Insert
    \/ ProcessOk
    \/ Ack

SpecStartup == InitStartup /\ [][NextStartup]_vars

\* basic_qos(prefetch_count=1): the broker hands consumer c a message only
\* while c has fewer than prefetch_count deliveries unsettled
CanDeliver_Unlimited(c) == TRUE
CanDeliver(c) == Len(unacked[c]) < prefetch_count

\* basic_consume on a queue shared by several consumers: a message handed to
\* one consumer is no longer ready for the others
Dispatched_Fanout(q) == q
Dispatched(q) == Tail(q)

\* the broker hands the head of the queue to consumer c of the fleet
FleetDeliver(c) ==
    /\ queue # <<>>
    /\ CanDeliver(c)
    /\ unacked' = [unacked EXCEPT ![c] = Append(@, Head(queue))]
    /\ queue' = Dispatched(queue)
    /\ UNCHANGED <<storeVars, ledgerVars, sent, cpc, inflight, transaction, rows, origin, acked,
                   crashes, now, pending, processed, deployVars, connections, scalerVars>>

\* consumer c's callback on its oldest delivery, inside db.commit() of
\* process_transaction: the INSERT is sent and takes the row's id from the
\* sequence; the row is not yet visible to others
FleetInsert(c) ==
    /\ unacked[c] # <<>>
    /\ processed[c] = 0
    /\ pending[c] = NoRow
    /\ LET event == Head(unacked[c]).event
       IN pending' = [pending EXCEPT ![c] =
                         process_transaction(event.account_id, event.account_number,
                                             event.amount, event.transaction_type)]
    /\ transaction_id_seq' = transaction_id_seq + 1
    /\ UNCHANGED <<ledgerVars, brokerVars, consumerVars, account_id_seq, uncommitted,
                   unacked, processed, deployVars, connections, scalerVars>>

\* the COMMIT of consumer c's database transaction: the row is in the table
\* and process_transaction returns
FleetCommit(c) ==
    /\ pending[c] # NoRow
    /\ rows' = InsertTransaction(pending[c])
    /\ origin' = Append(origin, Head(unacked[c]).id)
    /\ processed' = [processed EXCEPT ![c] = pending[c].id]
    /\ pending' = [pending EXCEPT ![c] = NoRow]
    /\ UNCHANGED <<ledgerVars, brokerVars, cpc, inflight, transaction, acked, crashes,
                   now, storeVars, unacked, deployVars, connections, scalerVars>>

\* consumer c's basic_ack
FleetAck(c) ==
    /\ processed[c] # 0
    /\ acked' = acked \cup {[msg |-> Head(unacked[c]).id, row |-> processed[c]]}
    /\ unacked' = [unacked EXCEPT ![c] = Tail(@)]
    /\ processed' = [processed EXCEPT ![c] = 0]
    /\ UNCHANGED <<ledgerVars, brokerVars, cpc, inflight, transaction, rows, origin,
                   crashes, now, storeVars, pending, deployVars, connections,
                   scalerVars>>

\* Several consumer processes on the one queue, no failures.
NextFleet ==
    \/ EnqueueDeposit
    \/ \E c \in Consumers : FleetDeliver(c)
    \/ \E c \in Consumers : FleetInsert(c)
    \/ \E c \in Consumers : FleetCommit(c)
    \/ \E c \in Consumers : FleetAck(c)

SpecFleet == InitConsumer /\ [][NextFleet]_vars

\* Both services without any failure: every publish succeeds, every message
\* is processed and acked at its first delivery.  Requests carry any amount
\* the schema lets through and are served concurrently.
NextConsistency ==
    \/ \E w \in Workers : DepositAny(w)
    \/ \E w \in Workers : WithdrawAny(w)
    \/ \E w \in Workers : Commit(w)
    \/ \E w \in Workers : PublishOk(w)
    \/ Deliver
    \/ Insert
    \/ ProcessOk
    \/ Ack

SpecConsistency == InitNumeric /\ [][NextConsistency]_vars

\* ------------------------------------------------------------ autoscaler

\* The docker commands one scale_service call may issue, in the order of the
\* code: the `docker ps` of get_container_count, then for scale_up the `docker
\* ps` and `docker inspect` of get_base_container_info, the `docker ps` of
\* get_existing_container_numbers and `docker run`, for scale_down the
\* `docker ps` of get_existing_container_numbers, `docker stop` and `docker rm`.
DockerCommands(action) ==
    IF action = "scale_up" THEN {"ps_count", "base_info", "ps_numbers", "run"}
    ELSE {"ps_count", "ps_numbers", "stop", "rm"}

\* How one docker command can go.  subprocess.run(check=True, timeout=...)
\* tells the autoscaler only that the command line client returned an error
\* or was killed at the timeout, not what the daemon had done by then:
\* "fail" leaves the containers as they were, "effect_then_fail" raises after
\* the daemon did the work, and after "create_then_fail" the container of
\* `docker run` exists under its name without running.
CommandResults(command) ==
    CASE command = "run" -> {"ok", "fail", "effect_then_fail", "create_then_fail"}
      [] command \in {"stop", "rm"} -> {"ok", "fail", "effect_then_fail"}
      [] OTHER -> {"ok", "fail"}

\* the commands that scale_up / scale_down do not reach once `command` has
\* raised: the exception ends the call, except in
\* get_existing_container_numbers, which catches it and returns no container
NotReached(action, command) ==
    IF action = "scale_up"
    THEN (IF command = "base_info" THEN {"ps_numbers", "run"} ELSE {})
    ELSE (IF command = "stop" THEN {"rm"} ELSE {})

\* how the docker commands of one call can go: a result for each of them,
\* "ok" for a command that is not reached
DockerOutcomes(action) ==
    {docker \in [DockerCommands(action) ->
                    {"ok", "fail", "effect_then_fail", "create_then_fail"}] :
        \A command \in DockerCommands(action) :
            /\ docker[command] \in CommandResults(command)
            /\ docker[command] # "ok"
               => \A later \in NotReached(action, command) : docker[later] = "ok"}

\* the commands that raise in the autoscaler
Raising(docker) == {command \in DOMAIN docker : docker[command] # "ok"}

\* helpers.can_scale: no action of this type recorded for the service, or
\* the cooldown has passed since
can_scale_Always(service, action) == TRUE
can_scale(service, action) ==
    LET last_action == last_scaling_actions[<<service, action>>]
    IN IF last_action = NoTime THEN TRUE
       ELSE ~(clock - last_action < SCALING_COOLDOWN_MINUTES)

\* helpers.get_container_count: the running containers named <prefix> or
\* <prefix>-n; 1 when none is found and 1 when the query fails
get_container_count(service, docker) ==
    IF docker["ps_count"] # "ok" THEN 1
    ELSE LET count == Cardinality(containers[service])
         IN IF count > 0 THEN count ELSE 1

\* helpers.get_existing_container_numbers: the running containers (0 for the
\* base container, listed as None); none when the query fails
get_existing_container_numbers(service, docker) ==
    IF docker["ps_numbers"] # "ok" THEN {} ELSE containers[service]

\* service.scale_service: min(current + 1, MAX_INSTANCES) or
\* max(current - 1, MIN_INSTANCES)
new_count(current, action) ==
    IF action = "scale_up"
    THEN (IF current + 1 < MAX_INSTANCES THEN current + 1 ELSE MAX_INSTANCES)
    ELSE (IF current - 1 > MIN_INSTANCES THEN current - 1 ELSE MIN_INSTANCES)

\* what scale_up / scale_down leave behind: whether they raised, the running
\* containers, the stopped ones
Scaled(raised, running, halted) ==
    [raised |-> raised, containers |-> running, stopped |-> halted]

\* service.scale_up: get_base_container_info, which raises when no container
\* of the service is running, then `docker run --name <prefix>-n`, n the
\* first number that get_existing_container_numbers did not report; docker
\* refuses a name that a container, running or stopped, already has.  Any
\* failure is re-raised, whatever the daemon did.
scale_up(service, docker) ==
    LET existing_numbers == get_existing_container_numbers(service, docker)
        numbered_containers == existing_numbers \ {0}
        next_number == CHOOSE n \in 1..(Cardinality(numbered_containers) + 1) :
                          /\ n \notin numbered_containers
                          /\ \A k \in 1..(n - 1) : k \in numbered_containers
        unchanged == Scaled(TRUE, containers[service], stopped[service])
    IN IF docker["base_info"] # "ok" \/ containers[service] = {} THEN unchanged
       ELSE IF next_number \in containers[service] \cup stopped[service]
       THEN unchanged
       ELSE CASE docker["run"] = "ok" ->
                     Scaled(FALSE, containers[service] \cup {next_number},
                            stopped[service])
              [] docker["run"] = "effect_then_fail" ->
                     Scaled(TRUE, containers[service] \cup {next_number},
                            stopped[service])
              [] docker["run"] = "create_then_fail" ->
                     Scaled(TRUE, containers[service],
                            stopped[service] \cup {next_number})
              [] OTHER -> unchanged

\* service.scale_down: `docker stop` and `docker rm` of the highest numbered
\* container; it returns without doing anything when
\* get_existing_container_numbers reports no container or no numbered one.
\* `docker rm` is not issued when `docker stop` raised.
scale_down(service, docker) ==
    LET existing_numbers == get_existing_container_numbers(service, docker)
        numbered_containers == existing_numbers \ {0}
        highest_number == CHOOSE n \in numbered_containers :
                             \A k \in numbered_containers : k <= n
        halted == Scaled(TRUE, containers[service] \ {highest_number},
                         stopped[service] \cup {highest_number})
    IN IF existing_numbers = {} \/ numbered_containers = {}
       THEN Scaled(FALSE, containers[service], stopped[service])
       ELSE CASE docker["stop"] = "fail" ->
                     Scaled(TRUE, containers[service], stopped[service])
              [] docker["stop"] = "effect_then_fail" -> halted
              [] docker["rm"] = "fail" -> halted
              [] docker["rm"] = "effect_then_fail" ->
                     Scaled(TRUE, containers[service] \ {highest_number},
                            stopped[service])
              [] OTHER ->
                     Scaled(FALSE, containers[service] \ {highest_number},
                            stopped[service])

\* One firing alert for `service` handled by process_webhook_alerts:
\* scale_service(container_prefix, action), its exception caught and reported
\* as a failed result.  The cooldown skip issues no docker command and the
\* target skip only the first.  can_scale reads the clock before the docker
\* commands and record_scaling_action after them, up to `elapsed` minutes
\* later.
ScaleService(service, action, docker) ==
    /\ budget > 0
    /\ budget' = budget - 1
    /\ docker \in DockerOutcomes(action)
    /\ Raising(docker) = {} \/ docker_faults < MaxDockerFaults
    /\ docker_faults' = IF Raising(docker) = {} THEN docker_faults
                        ELSE docker_faults + 1
    /\ LET current == get_container_count(service, docker)
           target == new_count(current, action)
           done == IF action = "scale_up" THEN scale_up(service, docker)
                   ELSE scale_down(service, docker)
           Result(success, message) ==
               [service |-> service, action |-> action,
                success |-> success, message |-> message]
       IN IF ~can_scale(service, action)
          THEN /\ Raising(docker) = {}
               /\ scaling' = Result(FALSE, "cooldown period active")
               /\ UNCHANGED <<containers, stopped, last_scaling_actions, clock>>
          ELSE IF target = current
          THEN /\ Raising(docker) \subseteq {"ps_count"}
               /\ scaling' = Result(FALSE, "already at target count")
               /\ UNCHANGED <<containers, stopped, last_scaling_actions, clock>>
          ELSE \E elapsed \in {0, 1} :
                  /\ clock + elapsed <= MaxTime
                  /\ clock' = clock + elapsed
                  /\ containers' = [containers EXCEPT ![service] = done.containers]
                  /\ stopped' = [stopped EXCEPT ![service] = done.stopped]
                  /\ IF done.raised
                     THEN /\ scaling' = Result(FALSE, "failed")
                          /\ UNCHANGED last_scaling_actions
                     ELSE \* record_scaling_action
                          /\ last_scaling_actions' =
                                 [last_scaling_actions EXCEPT
                                     ![<<service, action>>] = clock']
                          /\ scaling' = Result(TRUE, "scaled")
    /\ UNCHANGED <<storeVars, accounts, pc, request, old_balance, response, commits,
                   brokerVars, consumerVars, deployVars, connections, fleetVars>>

Webhook ==
    \E service \in Services, action \in ScalingActions :
        \E docker \in DockerOutcomes(action) : ScaleService(service, action, docker)

\* a minute passes on the autoscaler's clock
Advance ==
    /\ clock < MaxTime
    /\ clock' = clock + 1
    /\ UNCHANGED <<storeVars, ledgerVars, brokerVars, consumerVars, deployVars,
                   connections, fleetVars, containers, stopped, last_scaling_actions,
                   scaling, docker_faults>>

\* The autoscaler started with the services at some count within the limits
\* and no action recorded; MaxAlerts firing alerts may reach its webhook.
InitScaler ==
    /\ accounts = <<>>
    /\ account_id_seq = 0
    /\ InitState(MaxAlerts, 0)
    /\ settings = BrokerSettings
    /\ malformed = {}
    /\ started = Services
    /\ cpc = "idle"
    /\ \E k \in MIN_INSTANCES..MAX_INSTANCES :
          containers = [s \in Services |-> 0..(k - 1)]

NextScaler == Webhook \/ Advance

SpecScaler == InitScaler /\ [][NextScaler]_vars

\* The consumer with the shutdown interrupt arriving at any point.
NextShutdown ==
    \/ EnqueueFact
    \/ EnqueueMalformed
    \/ Deliver
    \/ Insert
    \/ ProcessMessage
    \/ Ack
    \/ Interrupt
    \/ ConnectionLost
    \/ Restart

SpecShutdown == InitConsumer /\ [][NextShutdown]_vars

\* process_transaction ends by an exception on this attempt
ProcessFails == \E o \in ProcessOutcomes \ {"ok"} : Process(o)

\* The consumer fed with well-formed facts whose processing fails on every
\* attempt.
NextPoison ==
    \/ EnqueueFact
    \/ Deliver
    \/ Insert
    \/ ProcessFails
    \/ ConnectionLost
    \/ Restart

SpecPoison == InitConsumer /\ [][NextPoison]_vars

\* The transactions table filled by a working consumer while the store's
\* clock runs, for the queries on it.
NextList ==
    \/ EnqueueFact
    \/ Tick
    \/ Deliver
    \/ Insert
    \/ ProcessOk
    \/ Ack

SpecList == InitConsumer /\ [][NextList]_vars

\* The transactions table filled with up to MaxRows rows, for paging.
NextPages ==
    \/ EnqueueDeposit
    \/ Tick
    \/ Deliver
    \/ Insert
    \/ ProcessOk
    \/ Ack

SpecPages == InitConsumer /\ [][NextPages]_vars

SpecLive ==
    /\ InitPipeline
    /\ [][NextLive]_vars
    /\ WF_vars(Deliver)
    /\ WF_vars(Insert)
    /\ WF_vars(ProcessOk)
    /\ WF_vars(Ack)
    /\ WF_vars(ConnectionLost)

\* ---------------------------------------------------------------- claims
Idle == \A w \in Workers : pc[w] = "idle"

\* the rows made from message m
RowsOf(m) == {i \in Indices(rows) : origin[i] = m}

\* row t carries the four business fields of fact f
SameFact(t, f) ==
    /\ t.account_id = f.account_id
    /\ t.account_number = f.account_number
    /\ t.amount = f.amount
    /\ t.transaction_type = f.transaction_type

Range(s) == {s[i] : i \in Indices(s)}

\* C1: in every reachable state, whatever the interleaving of the read,
\* commit and publish steps of concurrent deposits and withdrawals, every
\* account's committed balance is >= 0.
C1_BalanceNonNegative == \A a \in AccountIds : accounts[a].balance >= 0

\* two withdrawals of one account raced: more was withdrawn than ever held
C1_Witness == \E a \in AccountIds : commits.net[a] < 0 /\ accounts[a].balance >= 0

\* C2: a withdraw whose amount exceeds the account's current balance is
\* answered InsufficientFunds, changes no account and publishes no fact.
C2_InsufficientFundsRejected ==
    [][\A w \in Workers, id \in AccountIds, amount \in Amounts :
          (BeginRequest(w, "withdraw", id, amount) /\ amount > accounts[id].balance)
          => /\ response'.status = "InsufficientFunds"
             /\ response'.account_id = id
             /\ pc'[w] = "idle"
             /\ accounts' = accounts
             /\ commits' = commits
             /\ queue' = queue
             /\ sent' = sent]_vars

\* a withdraw was refused on an account that an earlier withdraw had drained
C2_Witness ==
    /\ response.status = "InsufficientFunds"
    /\ accounts[response.account_id].balance < Units(MaxAmount)
    /\ commits.n >= 1

\* C3 (as claimed): once every request has finished, each balance equals the
\* opening balance plus the accepted deposits minus the accepted withdrawals.
C3_NoLostUpdate ==
    Idle => \A a \in AccountIds : accounts[a].balance = commits.net[a]

\* C4 (as claimed): whatever way publish fails, a request whose balance
\* change is committed is answered with success and the balance is kept.
C4_PublishFailureSwallowed ==
    [][\A w \in Workers :
          (pc[w] = "publish" /\ pc'[w] = "idle")
          => (response'.status = "OK" /\ accounts' = accounts)]_vars

\* C5 (as claimed): once every request has finished, every committed
\* mutation has its fact stored in the broker queue.
C5_NoLostFact == Idle => Len(sent) = commits.n

\* C6 (as claimed): no published fact ever has more than one Transaction row.
C6_ExactlyOnce == \A m \in Indices(sent) : Cardinality(RowsOf(m)) <= 1

\* C7 (as claimed): when the consumer dies after the row of a delivery was
\* committed and before the ack, the fact is redelivered and a second row with the same
\* account_id, account_number, amount and transaction_type is inserted.
C7_RedeliveryDuplicates ==
    \A m \in 1..MaxFacts :
        (cpc = "dead" /\ inflight.id = m /\ transaction # 0)
        ~> (\E i, j \in RowsOf(m) :
                /\ i < j
                /\ SameFact(rows[i], sent[m])
                /\ SameFact(rows[j], sent[m]))

\* C8: with a working store, every published fact eventually has a row that a
\* query by its account_id returns, unless the consumer has ended and is
\* never run again; and without failure or redelivery it has exactly one.
C8_PublishedFactGetsRow ==
    /\ \A m \in 1..MaxFacts :
          (Len(sent) >= m)
          ~> \/ \E i \in RowsOf(m) :
                   /\ SameFact(rows[i], sent[m])
                   /\ rows[i] \in Range(get_transactions(sent[m].account_id, 0,
                                                          DefaultLimit))
             \/ [](cpc = "dead")
    /\ [](crashes = 0 => \A m \in Indices(sent) : Cardinality(RowsOf(m)) <= 1)

\* every published fact was acked with its single row, no crash having occurred
C8_Witness ==
    /\ crashes = 0
    /\ Len(sent) = MaxFacts
    /\ \A m \in Indices(sent) :
          /\ Cardinality(RowsOf(m)) = 1
          /\ \E a \in acked : a.msg = m

\* C9 (as claimed): every Transaction row carries the fields of a fact that was published
\* for a committed mutation, and an account with no committed mutation (all
\* its requests were rejected) has no row.
C9_RowsFromCommittedFacts ==
    /\ \A i \in Indices(rows) :
          /\ origin[i] \in Indices(sent)
          /\ SameFact(rows[i], sent[origin[i]])
          /\ rows[i].account_id \in AccountIds
          /\ rows[i].account_number = accounts[rows[i].account_id].account_number
          /\ [account_id |-> rows[i].account_id, amount |-> rows[i].amount,
              transaction_type |-> rows[i].transaction_type] \in commits.facts
    /\ \A a \in AccountIds :
          (\A f \in commits.facts : f.account_id # a) => get_transactions(a, 0, DefaultLimit) = <<>>

\* C10: a delivery is acked only after the row made by processing that
\* delivery was committed.
C10_AckAfterCommit ==
    \A a \in acked :
        \E i \in Indices(rows) : rows[i].id = a.row /\ origin[i] = a.msg

\* a message was acked
C10_Witness ==
    \E a \in acked : cpc = "idle" /\ \E i \in Indices(rows) : rows[i].id = a.row

\* the callback is running on a delivery and this step ends it
CallbackEnds == cpc \in {"callback", "ack"} /\ cpc' \notin {"callback", "ack"}

\* C11 (as claimed): every delivery whose body is not a well-formed fact is
\* nacked with requeue=false: the message leaves the broker without being
\* put back on the queue, and no Transaction row is made from it.
C11_MalformedDiscarded ==
    [][(CallbackEnds /\ cpc = "callback" /\ inflight.kind # "fact")
       => /\ cpc' = "idle"
          /\ inflight' = NoMessage
          /\ queue' = queue
          /\ rows' = rows]_vars

\* C12 (as claimed): whenever processing of a parsed fact fails, whatever the
\* exception, the delivery is nacked with requeue=true (back at the head of
\* the queue, marked redelivered) and is not acked.
C12_FailureRequeues ==
    [][(CallbackEnds /\ cpc = "callback" /\ inflight.kind = "fact")
       => /\ cpc' = "idle"
          /\ queue' = Requeue(inflight)
          /\ inflight' = NoMessage
          /\ acked' = acked]_vars

\* C13 (as claimed): the callback never returns without having settled its
\* delivery exactly once: it ends either by the ack, sent after
\* process_transaction returned, or by one nack, and the delivery is then no
\* longer outstanding; no exception leaves it.
C13_ExactlyOneSettlement ==
    [][CallbackEnds
       => /\ cpc' = "idle"
          /\ inflight' = NoMessage
          /\ (cpc = "ack") <=> (acked' # acked)]_vars

\* C14 (as claimed): a create request for an account_number that is in use
\* always ends with AlreadyExists, whether the number was already there at
\* the existence check or was inserted by another request between this
\* request's check and its insert.
C14_DuplicateAlreadyExists ==
    [][\A w \in Workers :
          /\ (pc' = pc /\ budget' < budget)
             => response'.status = "AlreadyExists"
          /\ (pc[w] \in {"insert", "insert_commit"} /\ pc'[w] = "idle"
              /\ get_account_by_number(request[w].account_number) # {})
             => response'.status = "AlreadyExists"]_vars

\* C15: no two accounts have the same account_number, whatever the
\* interleaving of create requests; a successful create adds exactly one
\* account, under an id no account had, with balance 0, and leaves every
\* existing account as it was (ids are the table's key).
C15_UniqueAccounts ==
    /\ [](\A i, j \in DOMAIN accounts :
             i # j => accounts[i].account_number # accounts[j].account_number)
    /\ [][\A w \in Workers :
             (pc[w] = "insert_commit" /\ pc'[w] = "idle"
              /\ response'.status = "Created")
             => \E id \in DOMAIN accounts' :
                   /\ id \notin DOMAIN accounts
                   /\ id = response'.account_id
                   /\ DOMAIN accounts' = DOMAIN accounts \cup {id}
                   /\ accounts'[id] = [account_number |-> request[w].account_number,
                                       balance |-> 0]
                   /\ \A a \in DOMAIN accounts : accounts'[a] = accounts[a]]_vars

\* two accounts were created and the store refused an interleaved duplicate
C15_Witness ==
    /\ Cardinality(DOMAIN accounts) = 2
    /\ response.status = "Unhandled"
    /\ accounts[1].balance = 0

\* the handlers that committed a mutation and have not yet called publish
Publishing == {w \in Workers : pc[w] = "publish"}

\* C16: a deposit or withdraw calls publish once, after its balance commit,
\* with the account's id and account_number, the amount and the operation as
\* transaction_type; at every state the facts published, with the publish
\* calls still to come, are at most the committed mutations.
C16_PublishAfterCommit ==
    /\ [](Len(sent) + Cardinality(Publishing) <= commits.n)
    /\ [][\A w \in Workers :
             /\ (pc'[w] = "publish" /\ pc[w] # "publish")
                => /\ pc[w] = "commit"
                   /\ commits'.n = commits.n + 1
                   /\ Mutation(request[w]) \in commits'.facts
                   /\ sent' = sent
             /\ (pc[w] = "publish" /\ pc'[w] # "publish")
                => /\ pc'[w] = "idle"
                   /\ Mutation(request[w]) \in commits.facts
                   /\ accounts' = accounts
                   /\ \/ sent' = sent /\ queue' = queue
                      \/ /\ sent' = Append(sent,
                                 [account_id |-> request[w].account_id,
                                  account_number |->
                                      accounts[request[w].account_id].account_number,
                                  amount |-> request[w].amount,
                                  transaction_type |-> request[w].op])
                         /\ Len(queue') = Len(queue) + 1
                         /\ queue'[Len(queue')].event = sent'[Len(sent')]]_vars
    /\ [][sent' # sent => \E w \in Workers : pc[w] = "publish" /\ pc'[w] = "idle"]_vars

\* a withdraw was published after a deposit whose publish call had failed
C16_Witness ==
    /\ Idle
    /\ commits.n = 2
    /\ Len(sent) = 1
    /\ sent[1].transaction_type = "withdraw"
    /\ sent[1].account_number = AccountNumberOf(sent[1].account_id)

\* process_transaction returned for the fact in flight in this step
ProcessReturns == cpc = "callback" /\ cpc' = "ack"

\* the row this step added to the table, when it added exactly one
AddedRow == rows'[Len(rows')]
AddsOneRow == Len(rows') = Len(rows) + 1 /\ SubSeq(rows', 1, Len(rows)) = rows

\* C17: a row is flagged fraud_detected exactly when its amount is above
\* 10000.00 (a row of exactly 10000.00 is not flagged), it has notes exactly
\* when it is flagged, and a flagged amount is recorded like any other.
C17_FraudFlag ==
    /\ [](\A i \in Indices(rows) :
             /\ rows[i].fraud_detected
                <=> sent[origin[i]].amount > Units(FRAUD_THRESHOLD)
             /\ rows[i].notes # <<>> <=> rows[i].fraud_detected)
    /\ [][ProcessReturns
          => /\ AddsOneRow
             /\ AddedRow.amount = Quantize(inflight.event.amount)
             /\ AddedRow.fraud_detected
                <=> inflight.event.amount > Units(FRAUD_THRESHOLD)]_vars

\* two rows store 10000.00: the one made from a fact of exactly 10000.00 is
\* unflagged, the one made from a fact a fraction of a cent above is flagged
C17_Witness ==
    \E i, j \in Indices(rows) :
        /\ sent[origin[i]].amount = Units(FRAUD_THRESHOLD)
        /\ rows[i].amount = Units(FRAUD_THRESHOLD)
        /\ ~rows[i].fraud_detected
        /\ rows[i].notes = <<>>
        /\ sent[origin[j]].amount = Units(FRAUD_THRESHOLD) + 1
        /\ rows[j].amount = Units(FRAUD_THRESHOLD)
        /\ rows[j].fraud_detected
        /\ rows[j].notes # <<>>

\* C18 (as claimed): a call of process_transaction that returns has added
\* exactly one row, with the four fields of its arguments and an id no
\* earlier row has; a call that raises has added no row.
C18_RowIffReturn ==
    [][(cpc = "callback" /\ cpc' # "callback" /\ inflight.kind = "fact")
       => IF cpc' = "ack"
          THEN /\ AddsOneRow
               /\ SameFact(AddedRow, inflight.event)
               /\ \A i \in Indices(rows) : rows[i].id # AddedRow.id
          ELSE rows' = rows]_vars

\* row t carries the fields of fact f as the store keeps them: the amount
\* rounded to two decimals
StoredFact(t, f) ==
    /\ t.account_id = f.account_id
    /\ t.account_number = f.account_number
    /\ t.amount = Quantize(f.amount)
    /\ t.transaction_type = f.transaction_type

\* C18 (amended): a call that returns has added exactly one row, with the
\* account_id, account_number and transaction_type of its arguments, their
\* amount rounded to two decimals and an id no earlier row has; a call that
\* raises has added no row, or that one row when the store failed after the
\* commit; in both cases the delivery is not acked.
C18_RowIffCommit ==
    [][(cpc = "callback" /\ cpc' # "callback" /\ inflight.kind = "fact")
       => /\ rows' # rows
             => /\ AddsOneRow
                /\ StoredFact(AddedRow, inflight.event)
                /\ \A i \in Indices(rows) : rows[i].id # AddedRow.id
          /\ cpc' = "ack" => rows' # rows /\ transaction' = AddedRow.id
          /\ cpc' # "ack" => acked' = acked /\ transaction' = 0]_vars

\* one delivery was processed and acked, its row storing the fact's amount
\* rounded; the next one's row is committed but its call raised, and the
\* consumer is gone with the delivery unsettled
C18_Witness ==
    /\ acked # {}
    /\ cpc = "dead"
    /\ inflight # NoMessage
    /\ RowsOf(inflight.id) # {}
    /\ Len(rows) = 2
    /\ \E a \in acked : \E i \in RowsOf(a.msg) : rows[i].amount # sent[a.msg].amount

\* C19: no step of the system modifies or removes a Transaction row (the
\* table only grows, every existing row keeps all its fields), and a step of
\* the consumer changes no account.  Listing is a query on the table: it is
\* the value get_transactions has in a state and is no step.
C19_RowsOnlyGrow ==
    [][/\ Len(rows') >= Len(rows)
       /\ \A i \in Indices(rows) : rows'[i] = rows[i]
       /\ (rows' # rows \/ cpc' # cpc \/ inflight' # inflight)
          => accounts' = accounts]_vars

\* two facts of deposits were recorded, the ledger holding their amounts
C19_Witness ==
    /\ Len(rows) >= 2
    /\ rows[1].id # rows[2].id
    /\ \E a \in AccountIds : accounts[a].balance > 0

\* the position of row t in listing l
PositionIn(l, t) == CHOOSE p \in Indices(l) : l[p] = t

\* C20: every page of every listing is in descending (processed_at, id)
\* order: of two returned rows the earlier has the later processed_at, or
\* the same processed_at and the larger id; and of two rows inserted one
\* after the other, the later one comes first in the listing.
C20_ListDescending ==
    \A account_id \in {0} \cup AccountIds :
        /\ \A skip \in 0..Len(rows), limit \in 1..(Len(rows) + 1) :
              LET l == get_transactions(account_id, skip, limit)
              IN \A i, j \in Indices(l) :
                    i < j => \/ l[i].processed_at > l[j].processed_at
                             \/ /\ l[i].processed_at = l[j].processed_at
                                /\ l[i].id > l[j].id
        /\ LET l == get_transactions(account_id, 0, DefaultLimit)
           IN \A i, j \in Indices(rows) :
                 (i < j /\ rows[i] \in Range(l) /\ rows[j] \in Range(l))
                 => PositionIn(l, rows[j]) < PositionIn(l, rows[i])

\* two rows of one account carry the same processed_at and the listing of
\* that account starts with the one inserted last
C20_Witness ==
    /\ Len(rows) = 2
    /\ rows[1].account_id = rows[2].account_id
    /\ rows[1].processed_at = rows[2].processed_at
    /\ get_transactions(rows[1].account_id, 0, DefaultLimit) = <<rows[2], rows[1]>>

\* the rows a listing with filter account_id selects (0: no filter asked for)
Selected(account_id) ==
    {i \in Indices(rows) : account_id = 0 \/ rows[i].account_id = account_id}

\* the place of rows[i] among the selected rows, newest first: one more than
\* the number of selected rows with a later processed_at, or the same
\* processed_at and a larger id
Rank(account_id, i) ==
    1 + Cardinality({j \in Selected(account_id) :
                        \/ rows[j].processed_at > rows[i].processed_at
                        \/ /\ rows[j].processed_at = rows[i].processed_at
                           /\ rows[j].id > rows[i].id})

Min(a, b) == IF a < b THEN a ELSE b
Max(a, b) == IF a < b THEN b ELSE a

\* the filters, offsets and limits asked for
Filters == {0} \cup AccountIds
Offsets == 0..(Len(rows) + 1)
Limits == 1..(Len(rows) + 1)

\* C21: list(skip, limit) returns exactly the rows at places skip+1 ..
\* skip+limit of the (processed_at desc, id desc) ordering of the selected
\* rows: min(limit, max(0, n - skip)) rows, n the number of selected rows.
C21_Pagination ==
    \A account_id \in Filters, skip \in Offsets, limit \in Limits :
        LET l == get_transactions(account_id, skip, limit)
            n == Cardinality(Selected(account_id))
        IN /\ Len(l) = Min(limit, Max(0, n - skip))
           /\ \A p \in Indices(l) :
                 \E i \in Selected(account_id) :
                    l[p] = rows[i] /\ Rank(account_id, i) = skip + p

\* three rows, the last two with one processed_at: the page of skip 1 and
\* limit 1 is the middle row of the ordering
C21_Witness ==
    /\ Len(rows) = 3
    /\ rows[1].processed_at < rows[2].processed_at
    /\ rows[2].processed_at = rows[3].processed_at
    /\ get_transactions(0, 1, 1) = <<rows[2]>>
    /\ get_transactions(0, 2, 2) = <<rows[1]>>
    /\ get_transactions(0, 3, 1) = <<>>

\* C22 (as claimed): with an account_id filter of any value, 0 included,
\* every returned row has that account_id and every row of that account_id
\* is returned (the window covering them all); with no filter the rows of
\* all accounts are returned.
C22_FilterByAccount ==
    /\ \A account_id \in 0..NumAccounts :
          LET l == get_transactions(account_id, 0, DefaultLimit)
          IN /\ \A p \in Indices(l) : l[p].account_id = account_id
             /\ \A i \in Indices(rows) :
                   rows[i].account_id = account_id => rows[i] \in Range(l)
    /\ Range(get_transactions(0, 0, DefaultLimit)) = Range(rows)

\* page k of size L
Page(account_id, k, L) == get_transactions(account_id, k * L, L)

RECURSIVE Pages(_, _, _)
\* pages k, k+1, ... of size L, one after the other, up to the first empty one
Pages(account_id, k, L) ==
    IF Page(account_id, k, L) = <<>> THEN <<>>
    ELSE Page(account_id, k, L) \o Pages(account_id, k + 1, L)

\* C23: on one state of the table the pages list(k*L, L), k = 0, 1, 2, ...
\* put one after the other are the whole ordered list, and every selected
\* row is on exactly one page.
C23_PagesPartition ==
    \A account_id \in Filters, L \in Limits :
        /\ Pages(account_id, 0, L) = get_transactions(account_id, 0, Len(rows) + 1)
        /\ \A i \in Selected(account_id) :
              Cardinality({k \in 0..Len(rows) :
                              rows[i] \in Range(Page(account_id, k, L))}) = 1
        /\ Len(Pages(account_id, 0, L)) = Cardinality(Selected(account_id))

\* three rows listed in two pages of two: the second page holds the oldest row
C23_Witness ==
    /\ Len(rows) = 3
    /\ Page(0, 0, 2) = <<rows[3], rows[2]>>
    /\ Page(0, 1, 2) = <<rows[1]>>
    /\ Page(0, 2, 2) = <<>>

\* the mutation of account a by amount x, as the history records it
Fact(a, x, op) == [account_id |-> a, amount |-> x, transaction_type |-> op]

\* C24 (as claimed): a withdraw is accepted exactly when its amount is at
\* most the current balance, and when the only mutations of an account that
\* held 0.00 are a deposit of x followed by a withdraw of x, its balance is
\* 0.00 again.
C24_ExactWithdraw ==
    /\ [][\A w \in Workers, id \in AccountIds, amount \in AnyAmounts :
             (BeginRequest(w, "withdraw", id, amount) /\ amount > 0)
             => (pc'[w] = "commit" <=> amount <= accounts[id].balance)]_vars
    /\ [](\A a \in AccountIds, x \in AnyAmounts :
             (Idle /\ commits.n = 2
              /\ commits.facts = {Fact(a, x, "deposit"), Fact(a, x, "withdraw")})
             => accounts[a].balance = 0)

\* C25 (as claimed): the commit of a deposit raises the account's balance by
\* exactly the amount, the commit of a withdraw lowers it by exactly the
\* amount, and no other account changes.
C25_ExactMutation ==
    [][\A w \in Workers :
          (pc[w] = "commit" /\ pc'[w] = "publish")
          => LET r == request[w]
             IN /\ accounts'[r.account_id].balance =
                      accounts[r.account_id].balance
                      + (IF r.op = "deposit" THEN r.amount ELSE -r.amount)
                /\ accounts'[r.account_id].account_number =
                      accounts[r.account_id].account_number
                /\ DOMAIN accounts' = DOMAIN accounts
                /\ \A a \in DOMAIN accounts \ {r.account_id} :
                      accounts'[a] = accounts[a]]_vars

\* C26: a deposit or withdraw addressed to an id that has no account is
\* answered NotFound, changes no account, creates none and publishes no fact;
\* a request addressed to an existing account is not answered NotFound.
\* (A step that takes a request off the budget and moves no worker is a
\* refusal, and response' is its answer.)
C26_NotFound ==
    [][budget' < budget
       => /\ \A w \in Workers :
                pc'[w] # pc[w] => request'[w].account_id \in DOMAIN accounts
          /\ pc' = pc
             => /\ response'.account_id \notin DOMAIN accounts
                   => response'.status = "NotFound"
                /\ response'.status = "NotFound"
                   => /\ response'.account_id \notin DOMAIN accounts
                      /\ accounts' = accounts
                      /\ commits' = commits
                      /\ queue' = queue
                      /\ sent' = sent]_vars

\* a request for an absent id was refused after a mutation had been committed
C26_Witness ==
    /\ response.status = "NotFound"
    /\ response.account_id \notin DOMAIN accounts
    /\ commits.n >= 1
    /\ Cardinality(DOMAIN accounts) = NumAccounts

\* the request whose commit this step is changes the balance of account a
Commits(op, a) ==
    \E w \in Workers :
        /\ pc[w] = "commit"
        /\ pc'[w] = "publish"
        /\ request[w].op = op
        /\ request[w].account_id = a

\* C27 (as claimed): a request with amount <= 0 is refused before the handler
\* runs: no balance changes, nothing is committed or published; and a
\* balance goes down only by the commit of a withdraw, up only by the commit
\* of a deposit.
C27_NonPositiveRejected ==
    /\ [][\A w \in Workers, op \in {"deposit", "withdraw"}, id \in AccountIds,
             amount \in AnyAmounts :
             (BeginRequest(w, op, id, amount) /\ amount <= 0)
             => /\ response' = [status |-> "InvalidInput", account_id |-> id]
                /\ pc' = pc
                /\ accounts' = accounts
                /\ commits' = commits
                /\ queue' = queue
                /\ sent' = sent]_vars
    /\ [][\A a \in AccountIds :
             /\ accounts'[a].balance < accounts[a].balance => Commits("withdraw", a)
             /\ accounts'[a].balance > accounts[a].balance => Commits("deposit", a)]_vars

\* C28 (as claimed): no message outcome ends the consume loop: the consumer
\* is never ended by an exception of its callback.
C28_LoopSurvives == cpc # "dead"

\* C29 (as claimed): when the consumer has stopped on the shutdown interrupt,
\* the delivery that was in flight has been settled: none is left unsettled.
C29_GracefulShutdown == cpc = "stopped" => inflight = NoMessage

\* message m is held by the broker: queued, or delivered and unsettled
InBroker(m) == inflight.id = m \/ \E i \in Indices(queue) : queue[i].id = m

\* C30: a message leaves the broker only by the consumer's ack or by its
\* nack(requeue=False) of an unparseable body; a delivery still unsettled when
\* its consumer ended is put back in the queue, marked redelivered.
C30_LeavesOnlyBySettlement ==
    /\ [][\A m \in 1..MaxPayloads :
             (InBroker(m) /\ ~(inflight'.id = m \/ \E i \in Indices(queue') : queue'[i].id = m))
             => /\ inflight.id = m
                /\ cpc' = "idle"
                /\ \/ cpc = "ack" /\ \E a \in acked' : a.msg = m
                   \/ /\ cpc = "callback"
                      /\ ParseSettlement(ParseRaises(inflight.kind)) = "nack_discard"]_vars
    /\ [][(cpc \in {"dead", "stopped"} /\ inflight # NoMessage /\ inflight' = NoMessage)
          => \E i \in Indices(queue') :
                queue'[i] = [inflight EXCEPT !.redelivered = TRUE]]_vars

\* the delivery left unsettled by an interrupted consumer, its row already
\* committed, is back with the restarted consumer
C30_Witness ==
    /\ cpc = "callback"
    /\ crashes >= 1
    /\ inflight.redelivered
    /\ inflight.id \in Range(origin)
    /\ \A a \in acked : a.msg # inflight.id

\* C31 (as claimed): a well-formed fact whose processing fails on every
\* attempt is nacked with requeue=true at every delivery (the callback ends
\* with the consumer consuming and the message back at the head of the queue,
\* marked redelivered); it is never acked and never leaves the broker.
C31_PoisonRequeuedForever ==
    /\ [][\A m \in 1..MaxPayloads :
             (cpc = "callback" /\ inflight.id = m /\ cpc' # "callback")
             => /\ cpc' = "idle"
                /\ inflight' = NoMessage
                /\ queue' # <<>>
                /\ Head(queue') = [inflight EXCEPT !.redelivered = TRUE]]_vars
    /\ [](acked = {})
    /\ [](\A m \in Indices(sent) : InBroker(m))

\* C36 (as claimed): a publish call that returns normally has handed its
\* message to the broker, and a call that raises has enqueued no message.
C36_RaiseMeansNotEnqueued ==
    [][\A w \in Workers, mode \in {"ok"} \cup PublishFailureModes :
          PublishCall(w, mode)
          => IF publish_transaction_event(mode).raises = "none"
             THEN Len(queue') = Len(queue) + 1 /\ Len(sent') = Len(sent) + 1
             ELSE queue' = queue /\ sent' = sent]_vars

\* C37 (as claimed): whatever publish calls were made and however they ended,
\* no broker connection opened by one of them is still open.
C37_ConnectionsClosed == connections = 0

\* C35 (as claimed): with a required broker setting absent, the account
\* service never accepts a deposit or withdraw, and the transaction service
\* is never up with its consumer ended.
C35_FatalStartup ==
    ~(BrokerSettings \subseteq settings)
    => /\ commits.n = 0
       /\ \A w \in Workers : pc[w] = "idle"
       /\ ~("transaction-service" \in started /\ cpc = "dead")

\* C32: a consumer never has more than one unsettled delivery: it is handed
\* the next message only after it acked the one it holds.
C32_OneUnacked == \A c \in Consumers : Len(unacked[c]) <= 1

\* every consumer holds one delivery while another message waits in the queue
C32_Witness ==
    /\ queue # <<>>
    /\ \A c \in Consumers : Len(unacked[c]) = 1

\* C33: with one consumer and neither nack nor redelivery, rows are inserted
\* in publish order: of two facts, the one published later never has the
\* smaller Transaction id.
C33_PublishOrder ==
    \A i, j \in Indices(rows) : origin[i] < origin[j] => rows[i].id < rows[j].id

\* two facts of one account have their rows, the later fact the later row
C33_Witness ==
    /\ Len(rows) >= 2
    /\ origin[1] = 1 /\ origin[2] = 2
    /\ rows[1].account_id = rows[2].account_id
    /\ rows[1].id < rows[2].id

\* the consumers of the fleet that hold message m unsettled
HeldBy(m) == {c \in Consumers : \E k \in Indices(unacked[c]) : unacked[c][k].id = m}

\* C34: with several consumers on the queue and no failure, no fact is held
\* by two consumers or has two rows, and once the queue is drained and every
\* delivery settled each published fact has exactly one row.
C34_OneConsumerOneRow ==
    /\ \A m \in Indices(sent) :
          /\ Cardinality(HeldBy(m)) <= 1
          /\ Cardinality(RowsOf(m)) <= 1
          /\ HeldBy(m) # {} => \A i \in Indices(queue) : queue[i].id # m
    /\ (queue = <<>> /\ \A c \in Consumers : unacked[c] = <<>>)
       => \A m \in Indices(sent) : Cardinality(RowsOf(m)) = 1

\* all facts settled, each with its one row, the rows out of publish order
C34_Witness ==
    /\ queue = <<>>
    /\ \A c \in Consumers : unacked[c] = <<>>
    /\ Len(sent) >= 2
    /\ \A m \in Indices(sent) : Cardinality(RowsOf(m)) = 1
    /\ \E i, j \in Indices(rows) : i < j /\ origin[i] > origin[j]

\* the deposits minus the withdraws of account a among the first k rows
RECURSIVE NetOfRows(_, _)
NetOfRows(a, k) ==
    IF k = 0 THEN 0
    ELSE NetOfRows(a, k - 1)
         + (IF rows[k].account_id # a THEN 0
            ELSE IF rows[k].transaction_type = "deposit" THEN rows[k].amount
            ELSE -rows[k].amount)

\* no request is being served, the queue is empty and no delivery is in flight
Quiescent == Idle /\ queue = <<>> /\ cpc = "idle" /\ inflight = NoMessage

\* C38 (as claimed): in a quiescent state of a run without publish failure,
\* dropped message or redelivery, every account's balance is the sum of its
\* deposit rows minus the sum of its withdraw rows.
C38_BalanceMatchesRows ==
    Quiescent => \A a \in AccountIds : accounts[a].balance = NetOfRows(a, Len(rows))

\* the number of running containers of service s
Count(s) == Cardinality(containers[s])
CountAfter(s) == Cardinality(containers'[s])

\* C39 (as claimed): every service's container count stays within
\* [MIN_INSTANCES, MAX_INSTANCES]; no step starts a container at
\* MAX_INSTANCES or removes one at MIN_INSTANCES, and a successful
\* scale_service call changes the count by exactly one.
C39_WithinLimits ==
    /\ [](\A s \in Services : MIN_INSTANCES <= Count(s) /\ Count(s) <= MAX_INSTANCES)
    /\ [][\A s \in Services :
             /\ CountAfter(s) > Count(s) => Count(s) < MAX_INSTANCES
             /\ CountAfter(s) < Count(s) => Count(s) > MIN_INSTANCES
             /\ (scaling' # scaling /\ scaling'.success /\ scaling'.service = s)
                => \/ scaling'.action = "scale_up" /\ CountAfter(s) = Count(s) + 1
                   \/ scaling'.action = "scale_down" /\ CountAfter(s) = Count(s) - 1]_vars

\* C40: a scale_service call (a step that takes an alert off the budget; its
\* result names the service and the action) made for (service, action) while
\* less than the cooldown has passed since the last recorded action of that key is skipped:
\* it changes neither the containers nor any timestamp.  A call records the
\* present time, under its own key only, exactly when it succeeds; a skipped
\* or failed call records nothing.
C40_Cooldown ==
    [][budget' < budget
       => LET service == scaling'.service
              action == scaling'.action
              last == last_scaling_actions[<<service, action>>]
          IN /\ (last # NoTime /\ clock - last < SCALING_COOLDOWN_MINUTES)
                => /\ containers' = containers
                   /\ last_scaling_actions' = last_scaling_actions
                   /\ ~scaling'.success
             /\ IF scaling'.success
                THEN last_scaling_actions' =
                         [last_scaling_actions EXCEPT ![<<service, action>>] = clock']
                ELSE last_scaling_actions' = last_scaling_actions]_vars

\* a scale_up was skipped during the cooldown of the service's last scale_up,
\* after a scale_down of the same service had gone through in that cooldown
C40_Witness ==
    \E s \in Services :
        /\ scaling = [service |-> s, action |-> "scale_up", success |-> FALSE,
                      message |-> "cooldown period active"]
        /\ last_scaling_actions[<<s, "scale_up">>] # NoTime
        /\ clock - last_scaling_actions[<<s, "scale_up">>] < SCALING_COOLDOWN_MINUTES
        /\ last_scaling_actions[<<s, "scale_down">>] > last_scaling_actions[<<s, "scale_up">>]
====
